---- MODULE Spec2Model ----
(***************************************************************************)
(* GamePassRewards: the on-chain sorted leaderboard and tiered prize-pool  *)
(* reward distribution (contracts/src/GamePassRewards.sol), together with  *)
(* the part of GamePassToken (mint / transfer) the engine depends on.      *)
(* GamePassToken's minting rights and GamePassSwap.buyTokens are specified *)
(* under SpecToken, the frontend's WalletProvider under SpecWallet.        *)
(*                                                                         *)
(* Indices are 0-based as in the Solidity code; the TLA+ sequence that     *)
(* holds the leaderboard array is 1-based, so leaderboard[i] of the code   *)
(* is At(lb, i) == lb[i + 1] here.  LeaderboardEntry.timestamp is written  *)
(* once and never read by any code path, so it is not carried.             *)
(***************************************************************************)
EXTENDS Integers, Sequences, FiniteSets, TLC

\* ------------------------------------------------------------------ bounds
NumPlayers == 3
MaxScore == 2
MaxThreshold == 1
MaxFund == 3
MaxRanked == 12
MaxValue == 2
MaxInFlight == 2
MaxBalance == 1

\* ------------------------------------------------------- program constants
\* MAX_LEADERBOARD_SIZE (100 in the code) and MAX_SUPPLY (10**27 in the code)
\* are scaled down; the code reads them only through the comparisons modelled
\* in TrimToMaxSize, MintResult and Init
MAX_LEADERBOARD_SIZE == 2
MAX_SUPPLY == 12

\* --------------------------------------------------------------- addresses
ZeroAddress == 0
Owner == 101
Validator1 == 102
Validator2 == 103
Engine == 104

Players == 1..NumPlayers
Scores == 0..MaxScore
Callers == {Owner, Validator1, Validator2}

\* ------------------------------------------------- GamePassSwap constants
\* amounts of CELO are counted in units of 10**16 wei (0.01 CELO) and amounts
\* of PASS in units of 10**17 (0.1 PASS): 1 ether is 100 units of CELO and
\* 30 * 10**18 is 300 units of PASS
ONE_ETHER == 100
THIRTY_PASS == 300
DEFAULT_MIN_CELO_PURCHASE == 1
SwapAddress == 105
Treasury == 106

\* ------------------------------------------------- WalletProvider constants
Undefined == "undefined"
NoChainId == 0
CELO_SEPOLIA_CHAIN_ID == 11142220
Accounts == {"0xA"}

\* the values a fetchBalance closure holds: those of the render in which the
\* balance effect ran; set tells whether setInterval's timer is running
NoInterval ==
    [set |-> FALSE, address |-> Undefined, chainId |-> NoChainId,
     isConnected |-> FALSE, activeAccount |-> Undefined]

\* useState initial values (lines 55-60); no account is active, no effect
\* has work to do and nothing is awaited
WalletInit ==
    [address |-> Undefined, balance |-> "0", chainId |-> NoChainId,
     isConnected |-> FALSE, activeAccount |-> Undefined,
     accountEffect |-> FALSE, chainEffect |-> FALSE, fetchEffect |-> FALSE,
     interval |-> NoInterval, inFlight |-> 0, disconnecting |-> FALSE]

\* -------------------------------------------------------- reward constants
FIRST_PLACE_PERCENT == 4000
SECOND_PLACE_PERCENT == 2500
THIRD_PLACE_PERCENT == 1500
PLACES_4_10_PERCENT == 1000
PARTICIPATION_PERCENT == 1000

\* ReentrancyGuard._status values
NOT_ENTERED == 1
ENTERED == 2

VARIABLES
    leaderboard,        \* LeaderboardEntry[]: Seq of [player, score, claimed]
    playerIndex,        \* mapping(address => uint256), 1-based, 0 = absent
    hasClaimed,         \* mapping(address => bool)
    prizePool,
    prizePoolSnapshot,
    minScoreThreshold,
    backendValidator,
    reentrancyStatus,   \* ReentrancyGuard._status of the engine
    totalSupply,        \* GamePassToken.totalSupply()
    balanceOf,          \* GamePassToken.balanceOf, for the engine and the players
    rewardsContract,    \* GamePassToken.rewardsContract
    inCall,             \* the engine call whose external token call is running
    epochPaid,          \* history: tokens paid since the snapshot was captured
    heldScore,          \* history: the highest score each player has held in an
                        \* entry, -1 if none (recorded under SpecHistory only)
    swapContract,       \* GamePassToken.swapContract
    swap,               \* GamePassSwap: [celoExchangeRate, minCeloPurchase]
    wallet              \* WalletProvider: its React state, the SDK's active
                        \* account and the callbacks that are still to run

engineVars == <<leaderboard, playerIndex, hasClaimed, prizePool,
                prizePoolSnapshot, minScoreThreshold, backendValidator>>
tokenVars == <<totalSupply, balanceOf, rewardsContract>>
\* state that no function of GamePassRewards reads or writes
outerVars == <<swapContract, swap, wallet>>

\* GamePassSwap's constructor and GamePassToken's unset swap address
OuterInit ==
    /\ swapContract = ZeroAddress
    /\ swap = [celoExchangeRate |-> ONE_ETHER,
               minCeloPurchase |-> DEFAULT_MIN_CELO_PURCHASE]
    /\ wallet = WalletInit
vars == <<leaderboard, playerIndex, hasClaimed, prizePool, prizePoolSnapshot,
          minScoreThreshold, backendValidator, reentrancyStatus, totalSupply,
          balanceOf, rewardsContract, inCall, epochPaid, heldScore, outerVars>>

\* ------------------------------------------------------------ leaderboard
At(lb, i) == lb[i + 1]

\* the search loop of _insertIntoLeaderboard, from position i on
RECURSIVE FindInsertIndexTiesFirst(_, _, _)
FindInsertIndexTiesFirst(lb, score, i) ==
    IF i < Len(lb)
    THEN IF score >= At(lb, i).score THEN i ELSE FindInsertIndexTiesFirst(lb, score, i + 1)
    ELSE Len(lb)

RECURSIVE FindInsertIndexAscending(_, _, _)
FindInsertIndexAscending(lb, score, i) ==
    IF i < Len(lb)
    THEN IF score < At(lb, i).score THEN i ELSE FindInsertIndexAscending(lb, score, i + 1)
    ELSE Len(lb)

RECURSIVE FindInsertIndex(_, _, _)
FindInsertIndex(lb, score, i) ==
    IF i < Len(lb)
    THEN IF score > At(lb, i).score THEN i ELSE FindInsertIndex(lb, score, i + 1)
    ELSE Len(lb)

\* the shift loop of _insertIntoLeaderboard: for (i = length-1; i > insertIndex; i--)
RECURSIVE ShiftRight(_, _, _, _)
ShiftRight(lb, pi, i, insertIndex) ==
    IF i > insertIndex
    THEN LET lb2 == [lb EXCEPT ![i + 1] = At(lb, i - 1)]
             pi2 == [pi EXCEPT ![At(lb2, i).player] = i + 1]
         IN  ShiftRight(lb2, pi2, i - 1, insertIndex)
    ELSE [lb |-> lb, pi |-> pi]

\* "Maintain max size": drop the last entry when the array is over the bound
TrimNoPop(b) == b

TrimKeepsIndex(b) ==
    IF Len(b.lb) > MAX_LEADERBOARD_SIZE
    THEN [lb |-> SubSeq(b.lb, 1, Len(b.lb) - 1), pi |-> b.pi]
    ELSE b

TrimDropsFirst(b) ==
    IF Len(b.lb) > MAX_LEADERBOARD_SIZE
    THEN [lb |-> Tail(b.lb),
          pi |-> [q \in DOMAIN b.pi |->
                    IF q = Head(b.lb).player \/ b.pi[q] = 0 THEN 0 ELSE b.pi[q] - 1]]
    ELSE b

TrimToMaxSize(b) ==
    IF Len(b.lb) > MAX_LEADERBOARD_SIZE
    THEN [lb |-> SubSeq(b.lb, 1, Len(b.lb) - 1),
          pi |-> [b.pi EXCEPT ![At(b.lb, Len(b.lb) - 1).player] = 0]]
    ELSE b

InsertIntoLeaderboard(lb, pi, player, score) ==
    LET newEntry == [player |-> player, score |-> score, claimed |-> FALSE]
        insertIndex == FindInsertIndex(lb, score, 0)
        placed ==
            IF insertIndex < Len(lb)
            THEN LET pushed == Append(lb, At(lb, Len(lb) - 1))
                     sh == ShiftRight(pushed, pi, Len(pushed) - 1, insertIndex)
                 IN  [lb |-> [sh.lb EXCEPT ![insertIndex + 1] = newEntry], pi |-> sh.pi]
            ELSE [lb |-> Append(lb, newEntry), pi |-> pi]
        indexed == [lb |-> placed.lb, pi |-> [placed.pi EXCEPT ![player] = insertIndex + 1]]
    IN  TrimToMaxSize(indexed)

\* the shift loop of _removeFromLeaderboard: for (i = _index; i < length-1; i++)
RECURSIVE ShiftLeft(_, _, _)
ShiftLeft(lb, pi, i) ==
    IF i < Len(lb) - 1
    THEN LET lb2 == [lb EXCEPT ![i + 1] = At(lb, i + 1)]
             pi2 == [pi EXCEPT ![At(lb2, i).player] = i + 1]
         IN  ShiftLeft(lb2, pi2, i + 1)
    ELSE [lb |-> lb, pi |-> pi]

RemoveWithoutPop(lb, pi, index) ==
    LET removedPlayer == At(lb, index).player
        sh == ShiftLeft(lb, pi, index)
    IN  [lb |-> sh.lb, pi |-> [sh.pi EXCEPT ![removedPlayer] = 0]]

\* _removeFromLeaderboard; called only with index < length
RemoveFromLeaderboard(lb, pi, index) ==
    LET removedPlayer == At(lb, index).player
        sh == ShiftLeft(lb, pi, index)
    IN  [lb |-> SubSeq(sh.lb, 1, Len(sh.lb) - 1),
         pi |-> [sh.pi EXCEPT ![removedPlayer] = 0]]

\* ----------------------------------------------------------------- rewards
RECURSIVE CountEligibleFrom(_, _, _)
CountEligibleFrom(lb, threshold, i) ==
    IF i < Len(lb)
    THEN (IF At(lb, i).score >= threshold THEN 1 ELSE 0)
         + CountEligibleFrom(lb, threshold, i + 1)
    ELSE 0

CountEligibleUnclaimed(lb, threshold) ==
    Cardinality({i \in 1..Len(lb) : lb[i].score >= threshold /\ ~lb[i].claimed})

CountEligiblePlayers(lb, threshold) == CountEligibleFrom(lb, threshold, 0)

CalculateRewardLivePool(lb, pool, snapshot, threshold, index) ==
    LET poolForCalculation == pool
        rank == index + 1
    IN  IF poolForCalculation = 0 THEN 0
        ELSE IF rank = 1 THEN (poolForCalculation * FIRST_PLACE_PERCENT) \div 10000
        ELSE IF rank = 2 THEN (poolForCalculation * SECOND_PLACE_PERCENT) \div 10000
        ELSE IF rank = 3 THEN (poolForCalculation * THIRD_PLACE_PERCENT) \div 10000
        ELSE IF rank >= 4 /\ rank <= 10
        THEN LET places4to10Total == (poolForCalculation * PLACES_4_10_PERCENT) \div 10000
                 eligiblePlayers == IF Len(lb) >= 10 THEN 7
                                    ELSE IF Len(lb) >= 4 THEN Len(lb) - 3 ELSE 0
             IN  IF eligiblePlayers = 0 THEN 0 ELSE places4to10Total \div eligiblePlayers
        ELSE LET participationTotal == (poolForCalculation * PARTICIPATION_PERCENT) \div 10000
                 eligibleCount == CountEligiblePlayers(lb, threshold)
             IN  IF eligibleCount = 0 THEN 0 ELSE participationTotal \div eligibleCount

CalculateRewardSplitBySeven(lb, pool, snapshot, threshold, index) ==
    LET poolForCalculation == IF snapshot > 0 THEN snapshot ELSE pool
        rank == index + 1
    IN  IF poolForCalculation = 0 THEN 0
        ELSE IF rank = 1 THEN (poolForCalculation * FIRST_PLACE_PERCENT) \div 10000
        ELSE IF rank = 2 THEN (poolForCalculation * SECOND_PLACE_PERCENT) \div 10000
        ELSE IF rank = 3 THEN (poolForCalculation * THIRD_PLACE_PERCENT) \div 10000
        ELSE IF rank >= 4 /\ rank <= 10
        THEN LET places4to10Total == (poolForCalculation * PLACES_4_10_PERCENT) \div 10000
             IN  places4to10Total \div 7
        ELSE LET participationTotal == (poolForCalculation * PARTICIPATION_PERCENT) \div 10000
                 eligibleCount == CountEligiblePlayers(lb, threshold)
             IN  IF eligibleCount = 0 THEN 0 ELSE participationTotal \div eligibleCount

CalculateReward(lb, pool, snapshot, threshold, index) ==
    LET poolForCalculation == IF snapshot > 0 THEN snapshot ELSE pool
        rank == index + 1
    IN  IF poolForCalculation = 0 THEN 0
        ELSE IF rank = 1 THEN (poolForCalculation * FIRST_PLACE_PERCENT) \div 10000
        ELSE IF rank = 2 THEN (poolForCalculation * SECOND_PLACE_PERCENT) \div 10000
        ELSE IF rank = 3 THEN (poolForCalculation * THIRD_PLACE_PERCENT) \div 10000
        ELSE IF rank >= 4 /\ rank <= 10
        THEN LET places4to10Total == (poolForCalculation * PLACES_4_10_PERCENT) \div 10000
                 eligiblePlayers == IF Len(lb) >= 10 THEN 7
                                    ELSE IF Len(lb) >= 4 THEN Len(lb) - 3 ELSE 0
             IN  IF eligiblePlayers = 0 THEN 0 ELSE places4to10Total \div eligiblePlayers
        ELSE LET participationTotal == (poolForCalculation * PARTICIPATION_PERCENT) \div 10000
                 eligibleCount == CountEligiblePlayers(lb, threshold)
             IN  IF eligibleCount = 0 THEN 0 ELSE participationTotal \div eligibleCount

\* -------------------------------------------------- external call in progress
Idle == [op |-> "none", player |-> ZeroAddress]
InExternalCall == inCall.op # "none"
\* GamePassToken.mint is nonReentrant: its guard is held while a mint is running
TokenMintEntered == inCall.op = "fundPrizePool"

\* ------------------------------------------------------------- submitScore
\* require(msg.sender == backendValidator)
AnyCaller(caller) == TRUE

OnlyBackend(caller) == caller = backendValidator

SubmitScoreResultAllowsEqual(caller, player, score) ==
    IF ~OnlyBackend(caller) THEN "Unauthorized"
    ELSE IF player = ZeroAddress THEN "InvalidPlayer"
    ELSE IF ~(score >= minScoreThreshold) THEN "ScoreTooLow"
    ELSE IF playerIndex[player] # 0
            /\ ~(score >= At(leaderboard, playerIndex[player] - 1).score)
         THEN "ScoreNotImproved"
    ELSE "ok"

SubmitScoreResult(caller, player, score) ==
    IF ~OnlyBackend(caller) THEN "Unauthorized"
    ELSE IF player = ZeroAddress THEN "InvalidPlayer"
    ELSE IF ~(score >= minScoreThreshold) THEN "ScoreTooLow"
    ELSE IF playerIndex[player] # 0
            /\ ~(score > At(leaderboard, playerIndex[player] - 1).score)
         THEN "ScoreNotImproved"
    ELSE "ok"

\* the leaderboard and index after an accepted submission
SubmitScoreUpdateDropsResubmitted(player, score) ==
    LET currentIndex == playerIndex[player]
        isNewEntry == (currentIndex = 0)
    IN  IF ~isNewEntry
        THEN RemoveFromLeaderboard(leaderboard, playerIndex, currentIndex - 1)
        ELSE InsertIntoLeaderboard(leaderboard, playerIndex, player, score)

SubmitScoreUpdateAppends(player, score) ==
    LET currentIndex == playerIndex[player]
        isNewEntry == (currentIndex = 0)
        removed == IF ~isNewEntry
                   THEN RemoveFromLeaderboard(leaderboard, playerIndex, currentIndex - 1)
                   ELSE [lb |-> leaderboard, pi |-> playerIndex]
    IN  IF ~isNewEntry
        THEN [lb |-> Append(removed.lb, [player |-> player, score |-> score,
                                         claimed |-> FALSE]),
              pi |-> [removed.pi EXCEPT ![player] = Len(removed.lb) + 1]]
        ELSE InsertIntoLeaderboard(removed.lb, removed.pi, player, score)

SubmitScoreUpdate(player, score) ==
    LET currentIndex == playerIndex[player]
        isNewEntry == (currentIndex = 0)
        removed == IF ~isNewEntry
                   THEN RemoveFromLeaderboard(leaderboard, playerIndex, currentIndex - 1)
                   ELSE [lb |-> leaderboard, pi |-> playerIndex]
    IN  InsertIntoLeaderboard(removed.lb, removed.pi, player, score)

\* the leaderboard and index a submitScore call leaves behind: a failed
\* require reverts the call
SubmitScoreOutcomeRemovesFirst(caller, player, score) ==
    IF SubmitScoreResult(caller, player, score) = "ok"
    THEN SubmitScoreUpdate(player, score)
    ELSE IF SubmitScoreResult(caller, player, score) = "ScoreNotImproved"
    THEN RemoveFromLeaderboard(leaderboard, playerIndex, playerIndex[player] - 1)
    ELSE [lb |-> leaderboard, pi |-> playerIndex]

SubmitScoreOutcome(caller, player, score) ==
    IF SubmitScoreResult(caller, player, score) = "ok"
    THEN SubmitScoreUpdate(player, score)
    ELSE [lb |-> leaderboard, pi |-> playerIndex]

\* an accepted submission gives the player a fresh start
SubmitScoreWritesResetsClaim(caller, player, score) ==
    LET out == SubmitScoreOutcome(caller, player, score)
    IN  /\ leaderboard' = out.lb
        /\ playerIndex' = out.pi
        /\ hasClaimed' = IF SubmitScoreResult(caller, player, score) = "ok"
                         THEN [hasClaimed EXCEPT ![player] = FALSE]
                         ELSE hasClaimed
        /\ UNCHANGED <<prizePool, prizePoolSnapshot, minScoreThreshold,
                       backendValidator, reentrancyStatus, totalSupply, balanceOf,
                       rewardsContract, inCall, epochPaid>>

\* the storage written by submitScore
SubmitScoreWrites(caller, player, score) ==
    LET out == SubmitScoreOutcome(caller, player, score)
    IN  /\ leaderboard' = out.lb
        /\ playerIndex' = out.pi
        /\ UNCHANGED <<hasClaimed, prizePool, prizePoolSnapshot, minScoreThreshold,
                       backendValidator, reentrancyStatus, totalSupply, balanceOf,
                       rewardsContract, inCall, epochPaid>>

SubmitScore(caller, player, score) ==
    /\ SubmitScoreWrites(caller, player, score)
    /\ UNCHANGED <<heldScore, outerVars>>

\* the highest score each player has held once the entries of lb are counted in
HeldAfter(held, lb, pi) ==
    [q \in DOMAIN held |->
        IF pi[q] # 0 /\ lb[pi[q]].score > held[q] THEN lb[pi[q]].score ELSE held[q]]

\* submitScore with the score history kept
SubmitScoreRecorded(caller, player, score) ==
    /\ SubmitScoreWrites(caller, player, score)
    /\ heldScore' = HeldAfter(heldScore, leaderboard', playerIndex')
    /\ UNCHANGED outerVars

\* ------------------------------------------------------------ claimRewards
\* require(!hasClaimed[_player])
ClaimedByEntryOnly(player) ==
    /\ playerIndex[player] > 0
    /\ leaderboard[playerIndex[player]].claimed

NeverClaimed(player) == FALSE

AlreadyClaimed(player) == hasClaimed[player]

ClaimRewardsResultNoPoolCheck(player) ==
    LET actualIndex == playerIndex[player] - 1
        snap == IF prizePoolSnapshot = 0 THEN prizePool ELSE prizePoolSnapshot
        rewardAmount == CalculateReward(leaderboard, prizePool, snap,
                                        minScoreThreshold, actualIndex)
        Fail(e) == [err |-> e, amount |-> 0, snapshot |-> prizePoolSnapshot]
    IN  IF reentrancyStatus = ENTERED THEN Fail("Reentrancy")
        ELSE IF player = ZeroAddress THEN Fail("InvalidPlayer")
        ELSE IF AlreadyClaimed(player) THEN Fail("AlreadyClaimed")
        ELSE IF ~(playerIndex[player] > 0) THEN Fail("NotRanked")
        ELSE IF ~(actualIndex < Len(leaderboard)) THEN Fail("InvalidIndex")
        ELSE IF At(leaderboard, actualIndex).player # player THEN Fail("PlayerMismatch")
        ELSE IF At(leaderboard, actualIndex).claimed THEN Fail("EntryClaimed")
        ELSE IF ~(At(leaderboard, actualIndex).score >= minScoreThreshold)
             THEN Fail("ScoreTooLow")
        ELSE IF ~(rewardAmount > 0) THEN Fail("NoReward")
        ELSE IF balanceOf[Engine] < rewardAmount THEN Fail("TransferFailed")
        ELSE [err |-> "ok", amount |-> rewardAmount, snapshot |-> snap]

ClaimRewardsResultNoZeroCheck(player) ==
    LET actualIndex == playerIndex[player] - 1
        snap == IF prizePoolSnapshot = 0 THEN prizePool ELSE prizePoolSnapshot
        rewardAmount == CalculateReward(leaderboard, prizePool, snap,
                                        minScoreThreshold, actualIndex)
        Fail(e) == [err |-> e, amount |-> 0, snapshot |-> prizePoolSnapshot]
    IN  IF reentrancyStatus = ENTERED THEN Fail("Reentrancy")
        ELSE IF player = ZeroAddress THEN Fail("InvalidPlayer")
        ELSE IF AlreadyClaimed(player) THEN Fail("AlreadyClaimed")
        ELSE IF ~(playerIndex[player] > 0) THEN Fail("NotRanked")
        ELSE IF ~(actualIndex < Len(leaderboard)) THEN Fail("InvalidIndex")
        ELSE IF At(leaderboard, actualIndex).player # player THEN Fail("PlayerMismatch")
        ELSE IF At(leaderboard, actualIndex).claimed THEN Fail("EntryClaimed")
        ELSE IF ~(At(leaderboard, actualIndex).score >= minScoreThreshold)
             THEN Fail("ScoreTooLow")
        ELSE IF ~(prizePool >= rewardAmount) THEN Fail("InsufficientPool")
        ELSE IF balanceOf[Engine] < rewardAmount THEN Fail("TransferFailed")
        ELSE [err |-> "ok", amount |-> rewardAmount, snapshot |-> snap]

\* the checks of claimRewards in the code's order; amount and snapshot are
\* the values the call would commit when err = "ok"
ClaimRewardsResult(player) ==
    LET actualIndex == playerIndex[player] - 1
        snap == IF prizePoolSnapshot = 0 THEN prizePool ELSE prizePoolSnapshot
        rewardAmount == CalculateReward(leaderboard, prizePool, snap,
                                        minScoreThreshold, actualIndex)
        Fail(e) == [err |-> e, amount |-> 0, snapshot |-> prizePoolSnapshot]
    IN  IF reentrancyStatus = ENTERED THEN Fail("Reentrancy")
        ELSE IF player = ZeroAddress THEN Fail("InvalidPlayer")
        ELSE IF AlreadyClaimed(player) THEN Fail("AlreadyClaimed")
        ELSE IF ~(playerIndex[player] > 0) THEN Fail("NotRanked")
        ELSE IF ~(actualIndex < Len(leaderboard)) THEN Fail("InvalidIndex")
        ELSE IF At(leaderboard, actualIndex).player # player THEN Fail("PlayerMismatch")
        ELSE IF At(leaderboard, actualIndex).claimed THEN Fail("EntryClaimed")
        ELSE IF ~(At(leaderboard, actualIndex).score >= minScoreThreshold)
             THEN Fail("ScoreTooLow")
        ELSE IF ~(rewardAmount > 0) THEN Fail("NoReward")
        ELSE IF ~(prizePool >= rewardAmount) THEN Fail("InsufficientPool")
        ELSE IF balanceOf[Engine] < rewardAmount THEN Fail("TransferFailed")
        ELSE [err |-> "ok", amount |-> rewardAmount, snapshot |-> snap]

ClaimRewardsCommitFlagsLate(player, res) ==
    /\ leaderboard' = leaderboard
    /\ hasClaimed' = hasClaimed
    /\ prizePoolSnapshot' = res.snapshot
    /\ prizePool' = prizePool - res.amount
    /\ balanceOf' = [balanceOf EXCEPT ![Engine] = @ - res.amount,
                                      ![player] = @ + res.amount]
    /\ epochPaid' = IF prizePoolSnapshot = 0 THEN res.amount
                    ELSE epochPaid + res.amount
    /\ UNCHANGED <<playerIndex, minScoreThreshold, backendValidator,
                   totalSupply, rewardsContract>>

ClaimRewardsCommitKeepsPool(player, res) ==
    /\ leaderboard' = [leaderboard EXCEPT ![playerIndex[player]].claimed = TRUE]
    /\ hasClaimed' = [hasClaimed EXCEPT ![player] = TRUE]
    /\ prizePoolSnapshot' = res.snapshot
    /\ prizePool' = prizePool
    /\ balanceOf' = [balanceOf EXCEPT ![Engine] = @ - res.amount,
                                      ![player] = @ + res.amount]
    /\ epochPaid' = IF prizePoolSnapshot = 0 THEN res.amount
                    ELSE epochPaid + res.amount
    /\ UNCHANGED <<playerIndex, minScoreThreshold, backendValidator,
                   totalSupply, rewardsContract>>

ClaimRewardsCommitSnapshotAfterPay(player, res) ==
    /\ leaderboard' = [leaderboard EXCEPT ![playerIndex[player]].claimed = TRUE]
    /\ hasClaimed' = [hasClaimed EXCEPT ![player] = TRUE]
    /\ prizePoolSnapshot' = IF prizePoolSnapshot = 0 THEN prizePool - res.amount
                            ELSE prizePoolSnapshot
    /\ prizePool' = prizePool - res.amount
    /\ balanceOf' = [balanceOf EXCEPT ![Engine] = @ - res.amount,
                                      ![player] = @ + res.amount]
    /\ epochPaid' = IF prizePoolSnapshot = 0 THEN res.amount
                    ELSE epochPaid + res.amount
    /\ UNCHANGED <<playerIndex, minScoreThreshold, backendValidator,
                   totalSupply, rewardsContract>>

ClaimRewardsCommitNoSnapshot(player, res) ==
    /\ leaderboard' = [leaderboard EXCEPT ![playerIndex[player]].claimed = TRUE]
    /\ hasClaimed' = [hasClaimed EXCEPT ![player] = TRUE]
    /\ prizePoolSnapshot' = prizePoolSnapshot
    /\ prizePool' = prizePool - res.amount
    /\ balanceOf' = [balanceOf EXCEPT ![Engine] = @ - res.amount,
                                      ![player] = @ + res.amount]
    /\ epochPaid' = IF prizePoolSnapshot = 0 THEN res.amount
                    ELSE epochPaid + res.amount
    /\ UNCHANGED <<playerIndex, minScoreThreshold, backendValidator,
                   totalSupply, rewardsContract>>

\* state written by a successful claim, token transfer included
ClaimRewardsCommitEntryFlagOnly(player, res) ==
    /\ leaderboard' = [leaderboard EXCEPT ![playerIndex[player]].claimed = TRUE]
    /\ prizePoolSnapshot' = res.snapshot
    /\ prizePool' = prizePool - res.amount
    /\ balanceOf' = [balanceOf EXCEPT ![Engine] = @ - res.amount,
                                      ![player] = @ + res.amount]
    /\ epochPaid' = IF prizePoolSnapshot = 0 THEN res.amount
                    ELSE epochPaid + res.amount
    /\ UNCHANGED <<playerIndex, hasClaimed, minScoreThreshold, backendValidator,
                   totalSupply, rewardsContract>>

ClaimRewardsCommit(player, res) ==
    /\ leaderboard' = [leaderboard EXCEPT ![playerIndex[player]].claimed = TRUE]
    /\ hasClaimed' = [hasClaimed EXCEPT ![player] = TRUE]
    /\ prizePoolSnapshot' = res.snapshot
    /\ prizePool' = prizePool - res.amount
    /\ balanceOf' = [balanceOf EXCEPT ![Engine] = @ - res.amount,
                                      ![player] = @ + res.amount]
    /\ epochPaid' = IF prizePoolSnapshot = 0 THEN res.amount
                    ELSE epochPaid + res.amount
    /\ UNCHANGED <<playerIndex, minScoreThreshold, backendValidator,
                   totalSupply, rewardsContract>>

\* the snapshot assigned before the reward checks survives their failure
ClaimRewardsLeavesSnapshot(player) ==
    LET res == ClaimRewardsResult(player)
    IN  /\ IF res.err = "ok"
           THEN ClaimRewardsCommit(player, res)
           ELSE IF res.err \in {"NoReward", "InsufficientPool"} /\ prizePoolSnapshot = 0
           THEN /\ prizePoolSnapshot' = prizePool
                /\ UNCHANGED <<leaderboard, playerIndex, hasClaimed, prizePool,
                               minScoreThreshold, backendValidator, tokenVars,
                               epochPaid>>
           ELSE UNCHANGED <<engineVars, tokenVars, epochPaid>>
        /\ UNCHANGED <<reentrancyStatus, inCall, heldScore, outerVars>>

\* claimRewards when the token does not call back during the transfer
ClaimRewards(player) ==
    LET res == ClaimRewardsResult(player)
    IN  /\ IF res.err = "ok"
           THEN ClaimRewardsCommit(player, res)
           ELSE UNCHANGED <<engineVars, tokenVars, epochPaid>>
        /\ UNCHANGED <<reentrancyStatus, inCall, heldScore, outerVars>>

\* claimRewards up to the point where control is inside safeTransfer
ClaimRewardsEnterTransfer(player) ==
    LET res == ClaimRewardsResult(player)
    IN  /\ ~InExternalCall
        /\ res.err = "ok"
        /\ ClaimRewardsCommit(player, res)
        /\ reentrancyStatus' = ENTERED
        /\ inCall' = [op |-> "claimRewards", player |-> player]
        /\ UNCHANGED <<heldScore, outerVars>>

\* ----------------------------------------------------------- fundPrizePool
\* GamePassToken.mint(_to, _amount) called by caller
TokenMintResultCapExclusive(caller, to, amount) ==
    IF TokenMintEntered THEN "TokenReentrancy"
    ELSE IF ~(caller = rewardsContract \/ caller = swapContract \/ caller = Owner)
         THEN "NotAuthorizedToMint"
    ELSE IF to = ZeroAddress THEN "MintToZeroAddress"
    ELSE IF ~(totalSupply + amount < MAX_SUPPLY) THEN "ExceedsMaxSupply"
    ELSE "ok"

TokenMintResultKeepsFirstMinter(caller, to, amount) ==
    IF TokenMintEntered THEN "TokenReentrancy"
    ELSE IF ~(caller = rewardsContract \/ caller = swapContract \/ caller = Owner
              \/ caller = Engine)
         THEN "NotAuthorizedToMint"
    ELSE IF to = ZeroAddress THEN "MintToZeroAddress"
    ELSE IF ~(totalSupply + amount <= MAX_SUPPLY) THEN "ExceedsMaxSupply"
    ELSE "ok"

TokenMintResult(caller, to, amount) ==
    IF TokenMintEntered THEN "TokenReentrancy"
    ELSE IF ~(caller = rewardsContract \/ caller = swapContract \/ caller = Owner)
         THEN "NotAuthorizedToMint"
    ELSE IF to = ZeroAddress THEN "MintToZeroAddress"
    ELSE IF ~(totalSupply + amount <= MAX_SUPPLY) THEN "ExceedsMaxSupply"
    ELSE "ok"

\* gamePassToken.mint(address(this), _amount) as made by the engine
MintResult(minter, amount) == TokenMintResult(minter, Engine, amount)

FundPrizePoolResultAnyCaller(caller, amount) ==
    IF ~(amount > 0) THEN "InvalidAmount"
    ELSE MintResult(Engine, amount)

FundPrizePoolResult(caller, amount) ==
    IF caller # Owner THEN "Unauthorized"
    ELSE IF ~(amount > 0) THEN "InvalidAmount"
    ELSE MintResult(Engine, amount)

FundPrizePoolCommitClearsAbove(amount) ==
    LET pool == prizePool + amount
        cleared == prizePoolSnapshot > 0 /\ pool > prizePoolSnapshot
    IN  /\ prizePool' = pool
        /\ prizePoolSnapshot' = IF cleared THEN 0 ELSE prizePoolSnapshot
        /\ epochPaid' = IF cleared THEN 0 ELSE epochPaid
        /\ totalSupply' = totalSupply + amount
        /\ balanceOf' = [balanceOf EXCEPT ![Engine] = @ + amount]
        /\ UNCHANGED <<leaderboard, playerIndex, hasClaimed, minScoreThreshold,
                       backendValidator, rewardsContract>>

FundPrizePoolCommitNoMint(amount) ==
    LET pool == prizePool + amount
        cleared == prizePoolSnapshot > 0 /\ pool >= prizePoolSnapshot
    IN  /\ prizePool' = pool
        /\ prizePoolSnapshot' = IF cleared THEN 0 ELSE prizePoolSnapshot
        /\ epochPaid' = IF cleared THEN 0 ELSE epochPaid
        /\ UNCHANGED <<leaderboard, playerIndex, hasClaimed, minScoreThreshold,
                       backendValidator, rewardsContract, totalSupply, balanceOf>>

FundPrizePoolCommitNeverClears(amount) ==
    /\ prizePool' = prizePool + amount
    /\ UNCHANGED <<prizePoolSnapshot, epochPaid>>
    /\ totalSupply' = totalSupply + amount
    /\ balanceOf' = [balanceOf EXCEPT ![Engine] = @ + amount]
    /\ UNCHANGED <<leaderboard, playerIndex, hasClaimed, minScoreThreshold,
                   backendValidator, rewardsContract>>

FundPrizePoolCommit(amount) ==
    LET pool == prizePool + amount
        cleared == prizePoolSnapshot > 0 /\ pool >= prizePoolSnapshot
    IN  /\ prizePool' = pool
        /\ prizePoolSnapshot' = IF cleared THEN 0 ELSE prizePoolSnapshot
        /\ epochPaid' = IF cleared THEN 0 ELSE epochPaid
        /\ totalSupply' = totalSupply + amount
        /\ balanceOf' = [balanceOf EXCEPT ![Engine] = @ + amount]
        /\ UNCHANGED <<leaderboard, playerIndex, hasClaimed, minScoreThreshold,
                       backendValidator, rewardsContract>>

\* the writes made before the mint call survive a failed mint
FundPrizePoolKeepsIncrement(caller, amount) ==
    LET res == FundPrizePoolResult(caller, amount)
        pool == prizePool + amount
        cleared == prizePoolSnapshot > 0 /\ pool >= prizePoolSnapshot
    IN  /\ IF res = "ok"
           THEN FundPrizePoolCommit(amount)
           ELSE IF res = "ExceedsMaxSupply"
           THEN /\ prizePool' = pool
                /\ prizePoolSnapshot' = IF cleared THEN 0 ELSE prizePoolSnapshot
                /\ epochPaid' = IF cleared THEN 0 ELSE epochPaid
                /\ UNCHANGED <<leaderboard, playerIndex, hasClaimed, minScoreThreshold,
                               backendValidator, tokenVars>>
           ELSE UNCHANGED <<engineVars, tokenVars, epochPaid>>
        /\ UNCHANGED <<reentrancyStatus, inCall, heldScore, outerVars>>

FundPrizePool(caller, amount) ==
    LET res == FundPrizePoolResult(caller, amount)
    IN  /\ IF res = "ok"
           THEN FundPrizePoolCommit(amount)
           ELSE UNCHANGED <<engineVars, tokenVars, epochPaid>>
        /\ UNCHANGED <<reentrancyStatus, inCall, heldScore, outerVars>>

\* fundPrizePool up to the point where control is inside gamePassToken.mint
FundPrizePoolEnterMint(caller, amount) ==
    /\ ~InExternalCall
    /\ FundPrizePoolResult(caller, amount) = "ok"
    /\ FundPrizePoolCommit(amount)
    /\ inCall' = [op |-> "fundPrizePool", player |-> ZeroAddress]
    /\ UNCHANGED <<reentrancyStatus, heldScore, outerVars>>

\* the external token call returns and the engine call completes; for
\* claimRewards the nonReentrant modifier releases the guard
ExternalCallReturns ==
    /\ InExternalCall
    /\ inCall' = Idle
    /\ reentrancyStatus' = IF inCall.op = "claimRewards" THEN NOT_ENTERED
                           ELSE reentrancyStatus
    /\ UNCHANGED <<engineVars, tokenVars, epochPaid, heldScore, outerVars>>

\* ----------------------------------------------------------------- setters
SetBackendValidator(caller, validator) ==
    LET res == IF caller # Owner THEN "Unauthorized"
               ELSE IF validator = ZeroAddress THEN "InvalidAddress"
               ELSE "ok"
    IN  /\ backendValidator' = IF res = "ok" THEN validator ELSE backendValidator
        /\ UNCHANGED <<leaderboard, playerIndex, hasClaimed, prizePool,
                       prizePoolSnapshot, minScoreThreshold, reentrancyStatus,
                       tokenVars, inCall, epochPaid, heldScore, outerVars>>

\* the entries below the new threshold are dropped from the leaderboard
SetMinScoreThresholdRetroactive(caller, threshold) ==
    LET res == IF caller # Owner THEN "Unauthorized" ELSE "ok"
        Keeps(e) == e.score >= threshold
        kept == IF res = "ok" THEN SelectSeq(leaderboard, Keeps) ELSE leaderboard
    IN  /\ minScoreThreshold' = IF res = "ok" THEN threshold ELSE minScoreThreshold
        /\ leaderboard' = kept
        /\ playerIndex' = [q \in DOMAIN playerIndex |->
                              IF \E i \in 1..Len(kept) : kept[i].player = q
                              THEN CHOOSE i \in 1..Len(kept) : kept[i].player = q
                              ELSE 0]
        /\ UNCHANGED <<hasClaimed, prizePool,
                       prizePoolSnapshot, backendValidator, reentrancyStatus,
                       tokenVars, inCall, epochPaid, heldScore, outerVars>>

SetMinScoreThreshold(caller, threshold) ==
    LET res == IF caller # Owner THEN "Unauthorized" ELSE "ok"
    IN  /\ minScoreThreshold' = IF res = "ok" THEN threshold ELSE minScoreThreshold
        /\ UNCHANGED <<leaderboard, playerIndex, hasClaimed, prizePool,
                       prizePoolSnapshot, backendValidator, reentrancyStatus,
                       tokenVars, inCall, epochPaid, heldScore, outerVars>>

\* GamePassToken.setRewardsContract
SetRewardsContract(caller, newContract) ==
    LET res == IF caller # Owner THEN "Unauthorized"
               ELSE IF newContract = ZeroAddress THEN "InvalidAddress"
               ELSE "ok"
    IN  /\ rewardsContract' = IF res = "ok" THEN newContract ELSE rewardsContract
        /\ UNCHANGED <<engineVars, reentrancyStatus, totalSupply, balanceOf,
                       inCall, epochPaid, heldScore, outerVars>>

\* ------------------------------------------------------------ GamePassToken
\* the storage of the token and of the swap contract is all a call to them
\* can write
TokenFrame ==
    UNCHANGED <<engineVars, reentrancyStatus, inCall, epochPaid, heldScore, wallet>>

Mint(caller, to, amount) ==
    LET res == TokenMintResult(caller, to, amount)
    IN  /\ totalSupply' = IF res = "ok" THEN totalSupply + amount ELSE totalSupply
        /\ balanceOf' = IF res = "ok"
                        THEN [balanceOf EXCEPT ![to] = @ + amount]
                        ELSE balanceOf
        /\ UNCHANGED <<rewardsContract, swapContract, swap>>
        /\ TokenFrame

\* ERC20Burnable.burn(value) called by holder
BurnResult(holder, amount) ==
    IF balanceOf[holder] < amount THEN "InsufficientBalance" ELSE "ok"

Burn(holder, amount) ==
    LET res == BurnResult(holder, amount)
    IN  /\ totalSupply' = IF res = "ok" THEN totalSupply - amount ELSE totalSupply
        /\ balanceOf' = IF res = "ok"
                        THEN [balanceOf EXCEPT ![holder] = @ - amount]
                        ELSE balanceOf
        /\ UNCHANGED <<rewardsContract, swapContract, swap>>
        /\ TokenFrame

SetSwapContract(caller, newContract) ==
    LET res == IF caller # Owner THEN "Unauthorized"
               ELSE IF newContract = ZeroAddress THEN "InvalidAddress"
               ELSE "ok"
    IN  /\ swapContract' = IF res = "ok" THEN newContract ELSE swapContract
        /\ UNCHANGED <<totalSupply, balanceOf, rewardsContract, swap>>
        /\ TokenFrame

\* ------------------------------------------------------------- GamePassSwap
\* buyTokens() with msg.sender = buyer and msg.value = value
BuyTokensResult(buyer, value) ==
    LET passAmount == (value * THIRTY_PASS) \div swap.celoExchangeRate
    IN  IF ~(value >= swap.minCeloPurchase) THEN "PaymentBelowMinimum"
        ELSE IF ~(value > 0) THEN "PaymentZero"
        ELSE IF ~(passAmount > 0) THEN "TokenAmountZero"
        ELSE TokenMintResult(SwapAddress, buyer, passAmount)

BuyTokens(buyer, value) ==
    LET passAmount == (value * THIRTY_PASS) \div swap.celoExchangeRate
        res == BuyTokensResult(buyer, value)
    IN  /\ totalSupply' = IF res = "ok" THEN totalSupply + passAmount ELSE totalSupply
        /\ balanceOf' = IF res = "ok"
                        THEN [balanceOf EXCEPT ![buyer] = @ + passAmount]
                        ELSE balanceOf
        /\ UNCHANGED <<rewardsContract, swapContract, swap>>
        /\ TokenFrame

SetCeloExchangeRate(caller, rate) ==
    LET res == IF caller # Owner THEN "Unauthorized"
               ELSE IF ~(rate > 0) THEN "InvalidRate"
               ELSE "ok"
    IN  /\ swap' = IF res = "ok" THEN [swap EXCEPT !.celoExchangeRate = rate] ELSE swap
        /\ UNCHANGED <<totalSupply, balanceOf, rewardsContract, swapContract>>
        /\ TokenFrame

SetMinCeloPurchase(caller, minAmount) ==
    LET res == IF caller # Owner THEN "Unauthorized" ELSE "ok"
    IN  /\ swap' = IF res = "ok" THEN [swap EXCEPT !.minCeloPurchase = minAmount]
                   ELSE swap
        /\ UNCHANGED <<totalSupply, balanceOf, rewardsContract, swapContract>>
        /\ TokenFrame

\* ----------------------------------------------------------- WalletProvider
\* The React state of WalletProvider, the active account reported by the
\* wallet SDK, and what is still to run: an effect whose dependencies changed
\* (accountEffect, chainEffect, fetchEffect), the interval timer, the
\* fetchBalance calls awaiting activeAccount.fetchBalance (inFlight) and a
\* disconnectWallet call awaiting the SDK (disconnecting).  Every callback
\* runs to completion; callbacks interleave at awaits and between effects.
WalletFrame ==
    UNCHANGED <<engineVars, tokenVars, reentrancyStatus, inCall, epochPaid,
                heldScore, swapContract, swap>>

\* toEther of a balance given in whole CELO
ToEther(value) == ToString(value)

\* the SDK's active account becomes a: the hooks re-render the provider
AccountChanges(w, a) ==
    [w EXCEPT !.activeAccount = a,
              !.accountEffect = (@ \/ a # w.activeAccount),
              !.chainEffect = (@ \/ a # w.activeAccount),
              !.fetchEffect = (@ \/ a # w.activeAccount)]

\* connectWallet: await wallet resolves and the SDK reports the account
ConnectWallet(a) ==
    /\ wallet.activeAccount = Undefined
    /\ ~wallet.disconnecting
    /\ wallet' = AccountChanges(wallet, a)
    /\ WalletFrame

\* the wallet drops the connection without disconnectWallet being called
AccountDisconnects ==
    /\ wallet.activeAccount # Undefined
    /\ ~wallet.disconnecting
    /\ wallet' = AccountChanges(wallet, Undefined)
    /\ WalletFrame

\* useEffect(..., [activeAccount]), lines 70-80
ActiveAccountEffect ==
    LET w == IF wallet.activeAccount # Undefined
             THEN [wallet EXCEPT !.address = wallet.activeAccount,
                                 !.isConnected = TRUE]
             ELSE [wallet EXCEPT !.address = Undefined,
                                 !.isConnected = FALSE,
                                 !.balance = "0"]
    IN  /\ wallet.accountEffect
        /\ wallet' = [w EXCEPT !.accountEffect = FALSE,
                               !.fetchEffect = (@ \/ w.address # wallet.address
                                                  \/ w.isConnected # wallet.isConnected)]
        /\ WalletFrame

\* useEffect(..., [activeWallet]), lines 83-93, with getChain() settled
ChainEffect(chain) ==
    LET id == IF wallet.activeAccount # Undefined THEN chain ELSE NoChainId
    IN  /\ wallet.chainEffect
        /\ wallet' = [wallet EXCEPT !.chainId = id,
                                    !.chainEffect = FALSE,
                                    !.fetchEffect = (@ \/ id # wallet.chainId)]
        /\ WalletFrame

\* fetchBalance up to its await, run with the values its closure holds
FetchBalance(w, closure) ==
    IF closure.address = Undefined \/ closure.chainId = NoChainId
       \/ ~closure.isConnected
    THEN [w EXCEPT !.balance = "0"]
    ELSE IF closure.activeAccount # Undefined
    THEN [w EXCEPT !.inFlight = @ + 1]
    ELSE w

\* useEffect(..., [address, chainId, isConnected, activeAccount]), lines
\* 106-134: the cleanup of the previous run, then the effect
FetchBalanceEffect ==
    LET closure == [set |-> TRUE, address |-> wallet.address,
                    chainId |-> wallet.chainId,
                    isConnected |-> wallet.isConnected,
                    activeAccount |-> wallet.activeAccount]
        cleaned == [wallet EXCEPT !.interval = NoInterval, !.fetchEffect = FALSE]
    IN  /\ wallet.fetchEffect
        /\ wallet.inFlight < MaxInFlight
        /\ wallet' = IF wallet.isConnected /\ wallet.address # Undefined
                     THEN [FetchBalance(cleaned, closure) EXCEPT !.interval = closure]
                     ELSE cleaned
        /\ WalletFrame

\* setInterval(fetchBalance, 10000) fires
RefreshTimer ==
    /\ wallet.interval.set
    /\ wallet.inFlight < MaxInFlight
    /\ wallet' = FetchBalance(wallet, wallet.interval)
    /\ WalletFrame

\* await activeAccount.fetchBalance(...) resolves, lines 116-120
FetchBalanceResolves(value) ==
    /\ wallet.inFlight > 0
    /\ wallet' = [wallet EXCEPT !.inFlight = @ - 1, !.balance = ToEther(value)]
    /\ WalletFrame

\* await activeAccount.fetchBalance(...) rejects, lines 122-125
FetchBalanceRejects ==
    /\ wallet.inFlight > 0
    /\ wallet' = [wallet EXCEPT !.inFlight = @ - 1, !.balance = "0"]
    /\ WalletFrame

\* disconnectWallet up to await disconnectWalletHook(), lines 156-158
DisconnectWalletCalled ==
    /\ ~wallet.disconnecting
    /\ wallet' = [AccountChanges(wallet, Undefined) EXCEPT !.disconnecting = TRUE]
    /\ WalletFrame

\* disconnectWallet after the await, lines 159-163
DisconnectWalletResumes ==
    LET w == [wallet EXCEPT !.address = Undefined, !.balance = "0",
                            !.chainId = NoChainId, !.isConnected = FALSE,
                            !.disconnecting = FALSE]
    IN  /\ wallet.disconnecting
        /\ wallet' = [w EXCEPT !.fetchEffect = (@ \/ w.address # wallet.address
                                                  \/ w.chainId # wallet.chainId
                                                  \/ w.isConnected # wallet.isConnected)]
        /\ WalletFrame

\* ---------------------------------------------------------- getPlayerReward
GetPlayerRewardIgnoresThreshold(player) ==
    LET actualIndex == playerIndex[player] - 1
    IN  IF player \notin DOMAIN hasClaimed THEN 0
        ELSE IF hasClaimed[player] THEN 0
        ELSE IF playerIndex[player] = 0 THEN 0
        ELSE IF actualIndex >= Len(leaderboard) THEN 0
        ELSE IF \/ At(leaderboard, actualIndex).player # player
                \/ At(leaderboard, actualIndex).claimed
             THEN 0
        ELSE CalculateReward(leaderboard, prizePool, prizePoolSnapshot,
                             minScoreThreshold, actualIndex)

GetPlayerRewardOfLivePool(player) ==
    LET actualIndex == playerIndex[player] - 1
    IN  IF player \notin DOMAIN hasClaimed THEN 0
        ELSE IF hasClaimed[player] THEN 0
        ELSE IF playerIndex[player] = 0 THEN 0
        ELSE IF actualIndex >= Len(leaderboard) THEN 0
        ELSE IF \/ At(leaderboard, actualIndex).player # player
                \/ At(leaderboard, actualIndex).claimed
                \/ At(leaderboard, actualIndex).score < minScoreThreshold
             THEN 0
        ELSE CalculateReward(leaderboard, prizePool, 0, minScoreThreshold, actualIndex)

\* a view function: the value it returns in the current state (the mappings
\* hold their default, false and 0, for an address that never played)
GetPlayerReward(player) ==
    LET actualIndex == playerIndex[player] - 1
    IN  IF player \notin DOMAIN hasClaimed THEN 0
        ELSE IF hasClaimed[player] THEN 0
        ELSE IF playerIndex[player] = 0 THEN 0
        ELSE IF actualIndex >= Len(leaderboard) THEN 0
        ELSE IF \/ At(leaderboard, actualIndex).player # player
                \/ At(leaderboard, actualIndex).claimed
                \/ At(leaderboard, actualIndex).score < minScoreThreshold
             THEN 0
        ELSE CalculateReward(leaderboard, prizePool, prizePoolSnapshot,
                             minScoreThreshold, actualIndex)

\* ------------------------------------------------------------ specification
Init ==
    /\ OuterInit
    /\ leaderboard = <<>>
    /\ playerIndex = [p \in Players |-> 0]
    /\ hasClaimed = [p \in Players |-> FALSE]
    /\ prizePool = 0
    /\ prizePoolSnapshot = 0
    /\ minScoreThreshold \in 0..MaxThreshold
    /\ backendValidator = Validator1
    /\ reentrancyStatus = NOT_ENTERED
    /\ totalSupply = MAX_SUPPLY \div 2
    /\ balanceOf = [a \in Players \cup {Engine} |-> 0]
    /\ rewardsContract = ZeroAddress
    /\ inCall = Idle
    /\ epochPaid = 0
    /\ heldScore = [p \in Players |-> 0 - 1]

\* the serialized transaction model: every call runs to completion (the
\* reward token, a plain ERC20, never calls back)
Next ==
    \/ \E c \in Callers, p \in Players \cup {ZeroAddress}, s \in Scores :
          SubmitScore(c, p, s)
    \/ \E p \in Players \cup {ZeroAddress} : ClaimRewards(p)
    \/ \E c \in Callers, a \in 0..MaxFund : FundPrizePool(c, a)
    \/ \E c \in Callers, v \in {ZeroAddress, Validator1, Validator2} :
          SetBackendValidator(c, v)
    \/ \E c \in Callers, t \in 0..MaxThreshold : SetMinScoreThreshold(c, t)
    \/ \E c \in Callers, a \in {ZeroAddress, Engine} :
          SetRewardsContract(c, a)

Spec == Init /\ [][Next]_vars

\* the same engine with a reward token that hands control to other code
\* while transfer or mint is running: calls into the engine may then be made
\* before the outer call completes (one level deep)
NextReentrant ==
    \/ Next
    \/ \E p \in Players : ClaimRewardsEnterTransfer(p)
    \/ \E c \in Callers, a \in 1..MaxFund : FundPrizePoolEnterMint(c, a)
    \/ ExternalCallReturns

SpecReentrant == Init /\ [][NextReentrant]_vars

\* the serialized engine with the score history of every player recorded
NextHistory ==
    \/ \E c \in Callers, p \in Players \cup {ZeroAddress}, s \in Scores :
          SubmitScoreRecorded(c, p, s)
    \/ \E p \in Players \cup {ZeroAddress} : ClaimRewards(p)
    \/ \E c \in Callers, a \in 0..MaxFund : FundPrizePool(c, a)
    \/ \E c \in Callers, v \in {ZeroAddress, Validator1, Validator2} :
          SetBackendValidator(c, v)
    \/ \E c \in Callers, t \in 0..MaxThreshold : SetMinScoreThreshold(c, t)
    \/ \E c \in Callers, a \in {ZeroAddress, Engine} :
          SetRewardsContract(c, a)

SpecHistory == Init /\ [][NextHistory]_vars

\* the serialized engine with one more player than Players
MorePlayers == 1..(NumPlayers + 1)

InitMore ==
    /\ OuterInit
    /\ leaderboard = <<>>
    /\ playerIndex = [p \in MorePlayers |-> 0]
    /\ hasClaimed = [p \in MorePlayers |-> FALSE]
    /\ prizePool = 0
    /\ prizePoolSnapshot = 0
    /\ minScoreThreshold \in 0..MaxThreshold
    /\ backendValidator = Validator1
    /\ reentrancyStatus = NOT_ENTERED
    /\ totalSupply = MAX_SUPPLY \div 2
    /\ balanceOf = [a \in MorePlayers \cup {Engine} |-> 0]
    /\ rewardsContract = ZeroAddress
    /\ inCall = Idle
    /\ epochPaid = 0
    /\ heldScore = [p \in MorePlayers |-> 0 - 1]

NextMore ==
    \/ \E c \in Callers, p \in MorePlayers \cup {ZeroAddress}, s \in Scores :
          SubmitScore(c, p, s)
    \/ \E p \in MorePlayers \cup {ZeroAddress} : ClaimRewards(p)
    \/ \E c \in Callers, a \in 0..MaxFund : FundPrizePool(c, a)
    \/ \E c \in Callers, v \in {ZeroAddress, Validator1, Validator2} :
          SetBackendValidator(c, v)
    \/ \E c \in Callers, t \in 0..MaxThreshold : SetMinScoreThreshold(c, t)
    \/ \E c \in Callers, a \in {ZeroAddress, Engine} :
          SetRewardsContract(c, a)

SpecMore == InitMore /\ [][NextMore]_vars

\* ------------------------------------------------- token and swap contract
\* GamePassToken and GamePassSwap called directly, every call run to
\* completion; the treasury holds the half of MAX_SUPPLY minted to it by the
\* token's constructor
Holders == {1, 2, Treasury}
Minters == {Owner, Engine, SwapAddress, 1}
Admins == {Owner, Validator1}
Rates == {0, ONE_ETHER, 10 * ONE_ETHER}

TokenInit ==
    /\ OuterInit
    /\ leaderboard = <<>>
    /\ playerIndex = [p \in Players |-> 0]
    /\ hasClaimed = [p \in Players |-> FALSE]
    /\ prizePool = 0
    /\ prizePoolSnapshot = 0
    /\ minScoreThreshold = 0
    /\ backendValidator = Validator1
    /\ reentrancyStatus = NOT_ENTERED
    /\ totalSupply = MAX_SUPPLY \div 2
    /\ balanceOf = [a \in Holders \cup {Engine} |->
                       IF a = Treasury THEN MAX_SUPPLY \div 2 ELSE 0]
    /\ rewardsContract = ZeroAddress
    /\ inCall = Idle
    /\ epochPaid = 0
    /\ heldScore = [p \in Players |-> 0 - 1]

NextToken ==
    \/ \E c \in Minters, to \in {ZeroAddress, 1, 2}, a \in 0..MaxFund : Mint(c, to, a)
    \/ \E h \in Holders, a \in 1..MaxFund : Burn(h, a)
    \/ \E c \in Admins, a \in {ZeroAddress, Engine, SwapAddress} :
          SetRewardsContract(c, a)
    \/ \E c \in Admins, a \in {ZeroAddress, Engine, SwapAddress} :
          SetSwapContract(c, a)
    \/ \E b \in {1, 2}, v \in 0..MaxValue : BuyTokens(b, v)
    \/ \E c \in Admins, r \in Rates : SetCeloExchangeRate(c, r)
    \/ \E c \in Admins, m \in 0..MaxValue : SetMinCeloPurchase(c, m)

SpecToken == TokenInit /\ [][NextToken]_vars

\* ----------------------------------------------------------- frontend wallet
NextWallet ==
    \/ \E a \in Accounts : ConnectWallet(a)
    \/ AccountDisconnects
    \/ ActiveAccountEffect
    \/ \E chain \in {CELO_SEPOLIA_CHAIN_ID, NoChainId} : ChainEffect(chain)
    \/ FetchBalanceEffect
    \/ RefreshTimer
    \/ FetchBalanceRejects
    \/ \E value \in 0..MaxBalance : FetchBalanceResolves(value)
    \/ DisconnectWalletCalled
    \/ DisconnectWalletResumes

SpecWallet == Init /\ [][NextWallet]_vars

\* ------------------------------------------------------------ reward tiers
\* _calculateReward on leaderboards that reach ranks 4-10 and 11+.  The
\* initial states are states of the deployed contract (MAX_LEADERBOARD_SIZE =
\* 100, MAX_SUPPLY = 10**27) after n accepted submitScore calls, a threshold
\* change and one fundPrizePool call, before the first claim; neither
\* claimRewards nor _calculateReward reads the two constants scaled above.
TierPlayers == 1..MaxRanked
TierPools == {0, 7, 1000}

\* n ranked players, the first k of them with score 1 and the others with 0
TierBoard(n, k) ==
    [i \in 1..n |-> [player |-> i, score |-> IF i <= k THEN 1 ELSE 0,
                     claimed |-> FALSE]]

TierInit ==
    \E n \in 0..MaxRanked, k \in 0..MaxRanked, pool \in TierPools :
        /\ k <= n
        /\ OuterInit
        /\ leaderboard = TierBoard(n, k)
        /\ playerIndex = [p \in TierPlayers |-> IF p <= n THEN p ELSE 0]
        /\ hasClaimed = [p \in TierPlayers |-> FALSE]
        /\ prizePool = pool
        /\ prizePoolSnapshot = 0
        /\ minScoreThreshold \in 0..MaxThreshold
        /\ backendValidator = Validator1
        /\ reentrancyStatus = NOT_ENTERED
        /\ totalSupply = MAX_SUPPLY \div 2 + pool
        /\ balanceOf = [a \in TierPlayers \cup {Engine} |->
                           IF a = Engine THEN pool ELSE 0]
        /\ rewardsContract = Engine
        /\ inCall = Idle
        /\ epochPaid = 0
        /\ heldScore = [p \in TierPlayers |->
                           IF p <= n THEN (IF p <= k THEN 1 ELSE 0) ELSE 0 - 1]

NextTiers == \E p \in TierPlayers \cup {ZeroAddress} : ClaimRewards(p)

SpecTiers == TierInit /\ [][NextTiers]_vars

\* ================================================================== claims
EntriesOf(lb, p) == {i \in 1..Len(lb) : lb[i].player = p}
Others(lb, p) == SelectSeq(lb, LAMBDA e : e.player # p)
IsPrefix(a, b) == Len(a) <= Len(b) /\ a = SubSeq(b, 1, Len(a))
Full == Len(leaderboard) = MAX_LEADERBOARD_SIZE

\* C1: in every reachable state the leaderboard is sorted by score
\* descending: for all positions i < j, score at i >= score at j.
C1_SortedDescending ==
    \A i, j \in 1..Len(leaderboard) :
        i < j => leaderboard[i].score >= leaderboard[j].score

C1_Witness ==
    /\ Len(leaderboard) >= 2
    /\ leaderboard[1].score > leaderboard[2].score
    /\ leaderboard[1].player > leaderboard[2].player

\* C2: each player appears in at most one entry and playerIndex is an exact
\* bijection with the occupied positions (playerIndex[p] = i + 1 iff
\* leaderboard[i].player = p, 0 for players without an entry); hence the
\* 'Invalid leaderboard index' and 'Player mismatch' checks of claimRewards
\* never fail.
C2_IndexBijection ==
    /\ \A i \in 1..Len(leaderboard) :
          /\ leaderboard[i].player \in Players
          /\ playerIndex[leaderboard[i].player] = i
    /\ \A p \in Players :
          /\ playerIndex[p] \in 0..Len(leaderboard)
          /\ playerIndex[p] = 0 => EntriesOf(leaderboard, p) = {}
          /\ playerIndex[p] # 0 => EntriesOf(leaderboard, p) = {playerIndex[p]}
          /\ ClaimRewardsResult(p).err \notin {"InvalidIndex", "PlayerMismatch"}

C2_Witness ==
    /\ Full
    /\ \E p, q \in Players :
          /\ playerIndex[p] = 0
          /\ playerIndex[q] = MAX_LEADERBOARD_SIZE
          /\ leaderboard[1].score = leaderboard[MAX_LEADERBOARD_SIZE].score

\* C3: the leaderboard length never exceeds MAX_LEADERBOARD_SIZE, also
\* after a submission that inserts into a full leaderboard.
C3_LengthBounded == Len(leaderboard) <= MAX_LEADERBOARD_SIZE

\* a player who claimed (so was ranked) and is absent now was evicted by the bound
C3_Witness ==
    /\ Full
    /\ \E p \in Players : hasClaimed[p] /\ playerIndex[p] = 0

\* C4: each player is paid by claimRewards at most once: a payment to p is
\* only made while hasClaimed[p] is false and sets it; once set it stays set
\* whatever happens, p's balance no longer grows, and claimRewards(p) fails
\* with AlreadyClaimed (or is stopped earlier by the reentrancy guard).
C4_PaidAtMostOnce ==
    [][\A p \in Players :
          /\ balanceOf'[p] # balanceOf[p] => ~hasClaimed[p] /\ hasClaimed'[p]
          /\ hasClaimed[p] =>
                /\ hasClaimed'[p]
                /\ ClaimRewardsResult(p).err \in {"AlreadyClaimed", "Reentrancy"}]_vars

\* a claimed player is ranked again with a fresh unclaimed entry at rank 1
\* while the pool could pay that rank
C4_Witness ==
    \E p \in Players :
        /\ hasClaimed[p]
        /\ playerIndex[p] = 1
        /\ ~leaderboard[1].claimed
        /\ CalculateReward(leaderboard, prizePool, prizePoolSnapshot,
                           minScoreThreshold, 0) \in 1..prizePool
        /\ ~InExternalCall

\* C5: within one pool epoch the sum of the amounts paid by claimRewards
\* never exceeds the snapshot captured for that epoch.
C5_EpochPayoutsWithinSnapshot ==
    (~InExternalCall /\ prizePoolSnapshot > 0) => epochPaid <= prizePoolSnapshot

\* C6: every engine operation that performs an external token call runs
\* under the reentrancy guard, so that a nested call into a guarded
\* operation is rejected with Reentrancy while the call is in progress.
C6_ExternalCallsGuarded ==
    InExternalCall =>
        /\ reentrancyStatus = ENTERED
        /\ \A p \in Players : ClaimRewardsResult(p).err = "Reentrancy"

\* C7: when claimRewards makes the token transfer, entry.claimed and
\* hasClaimed[player] are already true and prizePool is already decremented
\* by the reward; nothing is written after the transfer returns; during the
\* transfer the player is seen as claimed and nobody is paid by a nested call.
C7_EffectsBeforeTransfer ==
    [][/\ (~InExternalCall /\ inCall'.op = "claimRewards") =>
            LET p == inCall'.player
                res == ClaimRewardsResult(p)
            IN  /\ res.err = "ok" /\ res.amount > 0
                /\ hasClaimed'[p]
                /\ leaderboard'[playerIndex[p]].claimed
                /\ prizePool' = prizePool - res.amount
                /\ balanceOf'[p] = balanceOf[p] + res.amount
       /\ inCall.op = "claimRewards" =>
            /\ hasClaimed[inCall.player]
            /\ \A q \in Players : ClaimRewardsResult(q).err = "Reentrancy"
            /\ \A q \in Players : balanceOf'[q] = balanceOf[q]
            /\ ~InExternalCall' => UNCHANGED engineVars]_vars

C7_Witness ==
    /\ inCall.op = "claimRewards"
    /\ playerIndex[inCall.player] # 0
    /\ balanceOf[inCall.player] > 0

\* C8: submitScore succeeds only for the configured score authority; after
\* the owner's setBackendValidator(a) the previous authority is rejected and
\* a is accepted; a rejected submission leaves leaderboard, playerIndex,
\* pool and snapshot unchanged.
C8_OnlyAuthoritySubmits ==
    [][/\ <<leaderboard, playerIndex, prizePool, prizePoolSnapshot>>'
              # <<leaderboard, playerIndex, prizePool, prizePoolSnapshot>> =>
            \A c \in Callers \ {backendValidator}, p \in Players \cup {ZeroAddress},
               s \in Scores : ~SubmitScore(c, p, s)
       /\ leaderboard' # leaderboard =>
            \/ \E p \in Players, s \in Scores : SubmitScore(backendValidator, p, s)
            \/ \E p \in Players : hasClaimed'[p] # hasClaimed[p]
       /\ backendValidator' # backendValidator =>
            \A old \in {backendValidator}, new \in {backendValidator'} :
                /\ SetBackendValidator(Owner, new)
                /\ \A p \in Players, s \in Scores :
                      /\ SubmitScoreResult(old, p, s)' = "Unauthorized"
                      /\ SubmitScoreResult(new, p, s)' # "Unauthorized"]_vars

\* the authority was replaced and the new authority's submissions were accepted
C8_Witness ==
    /\ backendValidator = Validator2
    /\ Len(leaderboard) >= 2

\* C9: an accepted submission places the new entry after every entry whose
\* score is equal or higher and before every entry whose score is strictly
\* lower; the other entries keep their relative order (the last one may be
\* dropped by the bound).  New and resubmitting players alike.
C9_TiesKeepInsertionOrder ==
    \A p \in Players, s \in Scores :
        SubmitScoreResult(backendValidator, p, s) = "ok" =>
            LET upd == SubmitScoreUpdate(p, s)
                k == upd.pi[p]
            IN  /\ k # 0 =>
                      /\ upd.lb[k].player = p
                      /\ \A i \in 1..(k - 1) : upd.lb[i].score >= s
                      /\ \A i \in (k + 1)..Len(upd.lb) : upd.lb[i].score < s
                /\ IsPrefix(Others(upd.lb, p), Others(leaderboard, p))
                /\ Len(Others(upd.lb, p)) >= Len(Others(leaderboard, p)) - 1

\* two entries tie: the later one was placed behind the earlier one
C9_Witness ==
    /\ Len(leaderboard) >= 2
    /\ leaderboard[1].score = leaderboard[2].score
    /\ leaderboard[1].claimed

\* C10 as stated: after every successful submitScore(player, score) the
\* player has exactly one entry, carrying the submitted score, and a
\* resubmission leaves the length unchanged.
C10_ExactlyOneEntryAfterSubmit ==
    \A p \in Players, s \in Scores :
        SubmitScoreResult(backendValidator, p, s) = "ok" =>
            LET upd == SubmitScoreUpdate(p, s)
            IN  /\ \E i \in 1..Len(upd.lb) :
                      /\ EntriesOf(upd.lb, p) = {i}
                      /\ upd.lb[i].score = s
                /\ playerIndex[p] # 0 => Len(upd.lb) = Len(leaderboard)

\* C10 amended: after a successful submitScore(player, score) the player has
\* at most one entry; it has exactly one, unclaimed and carrying the
\* submitted score, unless the player was unranked, the leaderboard was full
\* and the score does not exceed the lowest ranked score: then the new entry
\* is the one dropped and the leaderboard is as before.  A resubmission
\* replaces the old entry and leaves the length unchanged.
C10_OneEntryUnlessEvicted ==
    \A p \in Players, s \in Scores :
        SubmitScoreResult(backendValidator, p, s) = "ok" =>
            LET upd == SubmitScoreUpdate(p, s)
                droppedAtOnce ==
                    /\ playerIndex[p] = 0
                    /\ Full
                    /\ s <= leaderboard[MAX_LEADERBOARD_SIZE].score
            IN  /\ Cardinality(EntriesOf(upd.lb, p)) <= 1
                /\ droppedAtOnce =>
                      /\ EntriesOf(upd.lb, p) = {}
                      /\ upd.lb = leaderboard
                      /\ upd.pi = playerIndex
                /\ ~droppedAtOnce =>
                      \E i \in 1..Len(upd.lb) :
                          /\ EntriesOf(upd.lb, p) = {i}
                          /\ upd.lb[i] = [player |-> p, score |-> s, claimed |-> FALSE]
                /\ playerIndex[p] # 0 => Len(upd.lb) = Len(leaderboard)

\* a claimed player holds a fresh entry in a leaderboard that was never full:
\* the old, claimed entry was replaced by a resubmission
C10_Witness ==
    /\ Len(leaderboard) < MAX_LEADERBOARD_SIZE
    /\ \E p \in Players :
          /\ hasClaimed[p]
          /\ playerIndex[p] # 0
          /\ ~leaderboard[playerIndex[p]].claimed

\* C11 as stated: a resubmission for a ranked player with a score not above
\* the stored one fails with ScoreNotImproved.
C11_ResubmissionFailsNotImproved ==
    \A p \in Players, s \in Scores :
        (playerIndex[p] # 0 /\ s <= leaderboard[playerIndex[p]].score) =>
            SubmitScoreResult(backendValidator, p, s) = "ScoreNotImproved"

\* C11 amended: a resubmission by the score authority for a ranked player
\* with a score not above the stored one fails, with ScoreTooLow when the
\* score is below the current minScoreThreshold (that check comes first) and
\* with ScoreNotImproved otherwise; leaderboard (entries, order, claimed
\* flags) and playerIndex are exactly as before the call.
C11_ResubmissionRejected ==
    \A p \in Players, s \in Scores :
        (playerIndex[p] # 0 /\ s <= leaderboard[playerIndex[p]].score) =>
            /\ SubmitScoreResult(backendValidator, p, s) =
                    IF s >= minScoreThreshold THEN "ScoreNotImproved" ELSE "ScoreTooLow"
            /\ SubmitScoreOutcome(backendValidator, p, s) =
                    [lb |-> leaderboard, pi |-> playerIndex]

\* a ranked player, not last, whose claimed entry meets a raised threshold:
\* an equal score is ScoreNotImproved, a score of 0 is ScoreTooLow
C11_Witness ==
    /\ minScoreThreshold > 0
    /\ Len(leaderboard) >= 2
    /\ leaderboard[1].claimed
    /\ leaderboard[1].score >= minScoreThreshold

\* C12: the scores of a player's entries are strictly increasing over time:
\* whenever submitScore leaves the player with an entry, its score is above
\* every score the player held before, also when the player had been evicted
\* by the bound and no stored score was there to compare against.
C12_ScoresStrictlyIncrease ==
    [][\A p \in Players, s \in Scores :
          (SubmitScoreRecorded(backendValidator, p, s) /\ playerIndex'[p] # 0)
              => s > heldScore[p]]_vars

\* an evicted player whose earlier score the threshold alone would let the
\* player undercut
C12_Witness ==
    \E p \in Players :
        /\ playerIndex[p] = 0
        /\ heldScore[p] > minScoreThreshold
        /\ SubmitScoreResult(backendValidator, p, minScoreThreshold) = "ok"

\* C13: when submitScore inserts an entry for a new player into a full
\* leaderboard, exactly one entry is dropped, it is the lowest-ranked entry
\* after the insertion, its playerIndex is cleared to 0, and the remaining
\* entries keep their relative order.
C13_EvictsLowestRanked ==
    \A p \in Players, s \in Scores :
        (Full /\ playerIndex[p] = 0
              /\ SubmitScoreResult(backendValidator, p, s) = "ok") =>
            LET upd == SubmitScoreUpdate(p, s)
                before == {leaderboard[i].player : i \in 1..Len(leaderboard)} \cup {p}
                after == {upd.lb[i].player : i \in 1..Len(upd.lb)}
                ScoreOf(q) == IF q = p THEN s ELSE leaderboard[playerIndex[q]].score
            IN  /\ Len(upd.lb) = MAX_LEADERBOARD_SIZE
                /\ after \subseteq before
                /\ Cardinality(before \ after) = 1
                /\ \A d \in before \ after :
                      /\ upd.pi[d] = 0
                      /\ \A i \in 1..Len(upd.lb) : upd.lb[i].score >= ScoreOf(d)
                      /\ d = p <=> s <= leaderboard[MAX_LEADERBOARD_SIZE].score
                      /\ d # p => d = leaderboard[MAX_LEADERBOARD_SIZE].player
                /\ \A q \in after : upd.pi[q] # 0 /\ upd.lb[upd.pi[q]].player = q
                /\ IsPrefix(Others(upd.lb, p), Others(leaderboard, p))

\* a paid player was pushed out of a full leaderboard by higher scores
C13_Witness ==
    /\ Full
    /\ leaderboard[1].score > leaderboard[MAX_LEADERBOARD_SIZE].score
    /\ leaderboard[MAX_LEADERBOARD_SIZE].score >= 1
    /\ \E p \in Players : playerIndex[p] = 0 /\ balanceOf[p] > 0

\* C14: a second claimRewards for the same player right after a
\* successful one fails with AlreadyClaimed, and a claimRewards call for a
\* player who has claimed changes nothing: leaderboard, playerIndex,
\* hasClaimed, pool, snapshot and balances stay as the first call left them.
C14_SecondClaimRejected ==
    [][\A p \in Players :
          /\ (~hasClaimed[p] /\ hasClaimed'[p]) =>
                ClaimRewardsResult(p)'.err = "AlreadyClaimed"
          /\ hasClaimed[p] =>
                /\ ClaimRewardsResult(p).err = "AlreadyClaimed"
                /\ ~ClaimRewards(p)]_vars

\* a paid player still holds the claimed entry at rank 1 while the pool
\* could pay that rank once more
C14_Witness ==
    \E p \in Players :
        /\ hasClaimed[p]
        /\ playerIndex[p] = 1
        /\ leaderboard[1].claimed
        /\ balanceOf[p] > 0
        /\ CalculateReward(leaderboard, prizePool, prizePoolSnapshot,
                           minScoreThreshold, 0) \in 1..prizePool

\* C15: a successful claimRewards(player) marks the player's entry claimed,
\* sets hasClaimed[player], decreases prizePool by exactly the amount computed
\* for the player's rank and increases the player's token balance by exactly
\* that amount, taken from the engine's balance.
C15_ClaimPaysComputedAmount ==
    [][\A p \in Players :
          hasClaimed'[p] # hasClaimed[p] =>
              LET amt == CalculateReward(leaderboard, prizePool, prizePoolSnapshot,
                                         minScoreThreshold, playerIndex[p] - 1)
              IN  /\ ClaimRewardsResult(p).err = "ok"
                  /\ playerIndex[p] # 0 /\ ~leaderboard[playerIndex[p]].claimed
                  /\ amt > 0
                  /\ hasClaimed'[p]
                  /\ leaderboard' = [leaderboard EXCEPT ![playerIndex[p]].claimed = TRUE]
                  /\ playerIndex' = playerIndex
                  /\ prizePool' = prizePool - amt
                  /\ balanceOf' = [balanceOf EXCEPT ![Engine] = @ - amt,
                                                    ![p] = @ + amt]]_vars

\* pool 5, a single player at rank 1: the payout is 2 (40%), the pool is 3
C15_Witness ==
    /\ Len(leaderboard) = 1
    /\ leaderboard[1].claimed
    /\ hasClaimed[leaderboard[1].player]
    /\ balanceOf[leaderboard[1].player] = 2
    /\ prizePoolSnapshot = 5
    /\ prizePool = 3

\* the pool the shares are taken of: the snapshot if set, else the live pool
PoolForShares == IF prizePoolSnapshot > 0 THEN prizePoolSnapshot ELSE prizePool
Computed(r) == CalculateReward(leaderboard, prizePool, prizePoolSnapshot,
                               minScoreThreshold, r - 1)
Eligible == {i \in 1..Len(leaderboard) : leaderboard[i].score >= minScoreThreshold}
\* the share of rank r in a pool of P as the reward rule states it
ShareOf(P, r) ==
    IF r = 1 THEN (P * 40) \div 100
    ELSE IF r = 2 THEN (P * 25) \div 100
    ELSE IF r = 3 THEN (P * 15) \div 100
    ELSE IF r <= 10
    THEN (P \div 10) \div ((IF Len(leaderboard) < 10 THEN Len(leaderboard) ELSE 10) - 3)
    ELSE IF Eligible = {} THEN 0 ELSE (P \div 10) \div Cardinality(Eligible)

\* C16: for ranks 1, 2 and 3 the computed reward is floor(P * 4000 / 10000),
\* floor(P * 2500 / 10000) and floor(P * 1500 / 10000), P being the snapshot
\* if it is set and the live prize pool otherwise; a successful claim at such
\* a rank pays that amount.
C16_TopThreeShares ==
    \A r \in 1..3 :
        r <= Len(leaderboard) =>
            LET bp == IF r = 1 THEN 4000 ELSE IF r = 2 THEN 2500 ELSE 1500
                expected == (PoolForShares * bp) \div 10000
                res == ClaimRewardsResult(leaderboard[r].player)
            IN  /\ Computed(r) = expected
                /\ res.err = "ok" => res.amount = expected

\* pool 1000 before the first claim: rank 1 was paid 400, rank 2 250, and
\* rank 3 is due 150 of the snapshot while the live pool is down to 350
C16_Witness ==
    /\ Len(leaderboard) >= 3
    /\ prizePoolSnapshot = 1000
    /\ prizePool = 350
    /\ balanceOf[leaderboard[1].player] = 400
    /\ balanceOf[leaderboard[2].player] = 250
    /\ ClaimRewardsResult(leaderboard[3].player).amount = 150

C19_PayoutIndependentOfOrder ==
    LET firstPool == prizePool + epochPaid
    IN  \A r \in 1..Len(leaderboard) :
            LET p == leaderboard[r].player
            IN  /\ hasClaimed[p] => balanceOf[p] = ShareOf(firstPool, r)
                /\ ~hasClaimed[p] => balanceOf[p] = 0
                /\ ClaimRewardsResult(p).err = "ok" =>
                      ClaimRewardsResult(p).amount = ShareOf(firstPool, r)

\* ranks 3 and 2 claimed first, rank 1 is still due 400 of the 1000
C19_Witness ==
    /\ Len(leaderboard) >= 3
    /\ prizePool = 600
    /\ balanceOf[leaderboard[3].player] = 150
    /\ balanceOf[leaderboard[2].player] = 250
    /\ ~hasClaimed[leaderboard[1].player]
    /\ ClaimRewardsResult(leaderboard[1].player).amount = 400

\* C20: a claimRewards that succeeds while no snapshot is set makes
\* prizePoolSnapshot the prizePool value from just before that claim; a set
\* snapshot is never changed by claimRewards, submitScore or the setters: its
\* only change is being cleared in fundPrizePool.
C20_SnapshotSetOnceClearedByFunding ==
    [][/\ (\E p \in Players : ~hasClaimed[p] /\ hasClaimed'[p]) =>
            prizePoolSnapshot' = IF prizePoolSnapshot = 0 THEN prizePool
                                 ELSE prizePoolSnapshot
       /\ prizePoolSnapshot' # prizePoolSnapshot =>
            \/ /\ prizePoolSnapshot = 0
               /\ prizePoolSnapshot' = prizePool
               /\ \E p \in Players : ClaimRewards(p)
            \/ /\ prizePoolSnapshot > 0
               /\ prizePoolSnapshot' = 0
               /\ \E a \in 1..MaxFund : FundPrizePool(Owner, a)]_vars

\* a snapshot outlived a second claim, a change of authority and a funding
\* too small to clear it
C20_Witness ==
    /\ prizePoolSnapshot > 0
    /\ prizePool + epochPaid > prizePoolSnapshot
    /\ Cardinality({p \in Players : hasClaimed[p]}) >= 2
    /\ backendValidator = Validator2

\* C21: fundPrizePool(amount) clears the snapshot exactly when a snapshot is
\* set and prizePool + amount >= snapshot; when the refunded pool stays below
\* the snapshot, the snapshot is unchanged and rewards are still computed
\* from it.
C21_FundingClearsReachedSnapshot ==
    [][prizePool' > prizePool =>
          LET amount == prizePool' - prizePool
              reached == prizePoolSnapshot > 0 /\ prizePool + amount >= prizePoolSnapshot
          IN  /\ FundPrizePool(Owner, amount)
              /\ reached => prizePoolSnapshot' = 0
              /\ ~reached =>
                    /\ prizePoolSnapshot' = prizePoolSnapshot
                    /\ prizePoolSnapshot > 0 =>
                          \A r \in 1..Len(leaderboard) :
                              Computed(r)' = ShareOf(prizePoolSnapshot, r)]_vars

\* after a funding that left the pool below the snapshot, the unclaimed
\* player at rank 1 is due 40% of the snapshot, more than 40% of the pool
C21_Witness ==
    /\ prizePoolSnapshot > 0
    /\ prizePool < prizePoolSnapshot
    /\ prizePool + epochPaid > prizePoolSnapshot
    /\ Len(leaderboard) >= 1
    /\ ClaimRewardsResult(leaderboard[1].player).err = "ok"
    /\ ClaimRewardsResult(leaderboard[1].player).amount > (prizePool * 40) \div 100

RECURSIVE SumBalances(_)
SumBalances(S) ==
    IF S = {} THEN 0
    ELSE LET q == CHOOSE x \in S : TRUE IN balanceOf[q] + SumBalances(S \ {q})
\* tokens minted by fundPrizePool, and tokens paid out by claimRewards
Funded == totalSupply - MAX_SUPPLY \div 2
Paid == SumBalances(DOMAIN balanceOf \ {Engine})

\* C22: prizePool equals the sum of the funded amounts minus the sum of the
\* amounts paid by claims, the engine's token balance equals prizePool, and
\* only a successful fundPrizePool or claimRewards changes prizePool.
C22_PoolAccounting ==
    [][/\ prizePool = Funded - Paid
       /\ balanceOf[Engine] = prizePool
       /\ prizePool' # prizePool =>
             \/ \E a \in 1..MaxFund : FundPrizePool(Owner, a) /\ prizePool' = prizePool + a
             \/ \E p \in Players :
                   /\ ClaimRewards(p)
                   /\ prizePool' = prizePool - ClaimRewardsResult(p).amount]_vars

\* several fundings and several payouts have been made
C22_Witness ==
    /\ Funded > MaxFund
    /\ Cardinality({p \in Players : balanceOf[p] > 0}) >= 2
    /\ prizePool > 0

\* C23: a claimRewards that passes the checks on the player and the entry
\* fails with InsufficientPool, paying nothing and changing no state,
\* whenever the live prizePool is smaller than the amount computed from the
\* snapshot; a successful claim never takes more than prizePool, which
\* therefore never underflows.
C23_InsufficientPoolRejected ==
    /\ prizePool >= 0
    /\ \A p \in Players :
          LET res == ClaimRewardsResult(p)
              e == leaderboard[playerIndex[p]]
          IN  /\ (/\ ~hasClaimed[p]
                  /\ playerIndex[p] # 0
                  /\ ~e.claimed
                  /\ e.score >= minScoreThreshold
                  /\ prizePool < Computed(playerIndex[p])) =>
                    /\ res.err = "InsufficientPool"
                    /\ res.amount = 0
                    /\ res.snapshot = prizePoolSnapshot
              /\ res.err = "ok" => res.amount <= prizePool

\* earlier payouts of the epoch left less than the share of the new rank 1
C23_Witness ==
    /\ Len(leaderboard) >= 1
    /\ ClaimRewardsResult(leaderboard[1].player).err = "InsufficientPool"
    /\ prizePool > 0
    /\ epochPaid > 0

\* a player whose claim gets as far as the reward computation
Claimable(p) ==
    /\ ~hasClaimed[p]
    /\ playerIndex[p] # 0
    /\ ~leaderboard[playerIndex[p]].claimed
    /\ leaderboard[playerIndex[p]].score >= minScoreThreshold

\* C24 as stated: with an empty prize pool (never funded or fully zero)
\* claimRewards fails with NoReward at every rank and leaves the snapshot
\* unset.
C24_EmptyPoolNoReward ==
    \A p \in DOMAIN hasClaimed :
        (prizePool = 0 /\ Claimable(p)) =>
            /\ ClaimRewardsResult(p).err = "NoReward"
            /\ ClaimRewardsResult(p).snapshot = 0

\* C24 amended: with prizePool = 0 and no snapshot set (a pool never
\* funded) claimRewards fails with NoReward at every rank and the snapshot
\* stays unset; with prizePool = 0 and a snapshot still set (the pool was
\* paid out to zero within the epoch) it fails with NoReward at the ranks
\* whose share of the snapshot is 0 and with InsufficientPool at the others,
\* and the snapshot stays as it is; either way nothing is paid and the
\* player stays unclaimed.
C24_EmptyPoolRejected ==
    \A p \in DOMAIN hasClaimed :
        (prizePool = 0 /\ Claimable(p)) =>
            LET res == ClaimRewardsResult(p)
            IN  /\ res.err = IF Computed(playerIndex[p]) = 0 THEN "NoReward"
                             ELSE "InsufficientPool"
                /\ prizePoolSnapshot = 0 => res.err = "NoReward"
                /\ res.amount = 0
                /\ res.snapshot = prizePoolSnapshot

\* the pool of an epoch was paid out to zero and a fourth player is ranked
C24_Witness ==
    /\ prizePool = 0
    /\ prizePoolSnapshot > 0
    /\ \E p \in DOMAIN hasClaimed :
          Claimable(p) /\ ClaimRewardsResult(p).err = "InsufficientPool"

\* C25: fundPrizePool fails for every caller other than the owner and for
\* amount = 0, leaving prizePool, snapshot and token supply unchanged; on
\* success prizePool (and the supply) grows by exactly amount, so repeated
\* fundings accumulate.
C25_FundingOwnerOnlyPositive ==
    [][/\ \A c \in Callers \ {Owner}, a \in 0..MaxFund :
             FundPrizePoolResult(c, a) = "Unauthorized"
       /\ FundPrizePoolResult(Owner, 0) = "InvalidAmount"
       /\ \/ UNCHANGED <<prizePool, prizePoolSnapshot, totalSupply>>
          \/ /\ \A c \in Callers \ {Owner}, a \in 0..MaxFund : ~FundPrizePool(c, a)
             /\ ~FundPrizePool(Owner, 0)
             /\ \A a \in 1..MaxFund :
                   FundPrizePool(Owner, a) =>
                       /\ prizePool' = prizePool + a
                       /\ totalSupply' = totalSupply + a
             /\ totalSupply' # totalSupply
                   => \E a \in 1..MaxFund : FundPrizePool(Owner, a)]_vars

\* more than one funding has been added up and nothing was paid
C25_Witness ==
    /\ prizePool > MaxFund
    /\ prizePool = Funded
    /\ Len(leaderboard) >= 1

\* C26: when fundPrizePool(amount) would push the token's total supply above
\* MAX_SUPPLY the call fails with ExceedsMaxSupply and neither prizePool nor
\* prizePoolSnapshot changes, although the pool is incremented and the
\* snapshot possibly cleared before the mint call: the pool never grows and
\* the snapshot is never cleared without the matching mint.
\* The result depends on totalSupply, rewardsContract and inCall only, so it is
\* evaluated on both sides of every step that changes one of them.
C26_FundingBeyondSupplyReverts ==
    [][/\ \/ UNCHANGED <<totalSupply, rewardsContract, inCall>>
          \/ \A a \in 1..MaxFund :
                /\ (rewardsContract = Engine /\ totalSupply + a > MAX_SUPPLY) =>
                       FundPrizePoolResult(Owner, a) = "ExceedsMaxSupply"
                /\ (rewardsContract' = Engine /\ totalSupply' + a > MAX_SUPPLY) =>
                       FundPrizePoolResult(Owner, a)' = "ExceedsMaxSupply"
       /\ \/ UNCHANGED <<prizePool, prizePoolSnapshot>>
          \/ \A a \in 1..MaxFund :
                (rewardsContract = Engine /\ totalSupply + a > MAX_SUPPLY) =>
                    ~FundPrizePool(Owner, a)
       /\ totalSupply' <= MAX_SUPPLY
       /\ totalSupply' = totalSupply =>
             /\ prizePool' <= prizePool
             /\ prizePoolSnapshot # 0 => prizePoolSnapshot' = prizePoolSnapshot
       /\ prizePool' > prizePool => totalSupply' - totalSupply = prizePool' - prizePool]_vars

\* the supply is at its maximum while a funding could clear the snapshot
C26_Witness ==
    /\ totalSupply = MAX_SUPPLY
    /\ rewardsContract = Engine
    /\ prizePoolSnapshot > 0
    /\ prizePool + MaxFund >= prizePoolSnapshot
    /\ prizePool < prizePoolSnapshot

\* C27: getPlayerReward(player) returns 0 for every player who has already
\* claimed, who has no leaderboard entry, or whose entry's score is below the
\* current minScoreThreshold (and for an address that never played). It reads
\* the stored snapshot without capturing one: for every other player it is
\* the share of the stored snapshot, or of the live pool while no snapshot
\* is set.
C27_PreviewZeroWhenNotClaimable ==
    /\ GetPlayerReward(ZeroAddress) = 0
    /\ \A p \in Players :
          /\ (\/ hasClaimed[p]
               \/ playerIndex[p] = 0
               \/ leaderboard[playerIndex[p]].score < minScoreThreshold)
                  => GetPlayerReward(p) = 0
          /\ Claimable(p) => GetPlayerReward(p) = Computed(playerIndex[p])

\* a ranked, unclaimed player below the threshold at a rank with a non-zero
\* share, next to a player who claimed and a player who is not ranked
C27_Witness ==
    \E p, q, u \in Players :
        /\ ~hasClaimed[p]
        /\ playerIndex[p] # 0
        /\ ~leaderboard[playerIndex[p]].claimed
        /\ leaderboard[playerIndex[p]].score < minScoreThreshold
        /\ Computed(playerIndex[p]) > 0
        /\ hasClaimed[q]
        /\ playerIndex[q] # 0
        /\ ~hasClaimed[u]
        /\ playerIndex[u] = 0

C29_PaidEntryStaysClaimed ==
    \A p \in Players :
        (hasClaimed[p] /\ playerIndex[p] # 0) => leaderboard[playerIndex[p]].claimed

\* C30: submitScore has no reward side effects: a step of submitScore, by
\* any caller and for any player and score, leaves prizePool,
\* prizePoolSnapshot, hasClaimed of every player and all token balances (and
\* the token supply) unchanged.
C30_SubmitScoreNoRewardEffects ==
    [][\/ UNCHANGED <<prizePool, prizePoolSnapshot, hasClaimed, balanceOf, totalSupply>>
       \/ \A c \in Callers, p \in Players \cup {ZeroAddress}, s \in Scores :
             ~SubmitScore(c, p, s)]_vars

\* a paid player was pushed off the full leaderboard by later submissions
\* while the epoch's snapshot, the pool and the balances stayed as the claim
\* left them
C30_Witness ==
    \E p \in Players :
        /\ hasClaimed[p]
        /\ playerIndex[p] = 0
        /\ Len(leaderboard) = MAX_LEADERBOARD_SIZE
        /\ prizePoolSnapshot > 0
        /\ balanceOf[p] > 0
        /\ prizePool = Funded - balanceOf[p]

\* C31: the token's total supply never exceeds MAX_SUPPLY after any sequence
\* of mints by authorized minters, purchases and burns, and it equals the sum
\* of the balances; a mint by an authorized minter that brings the supply to
\* exactly MAX_SUPPLY succeeds and a mint of one unit more fails with
\* 'Exceeds max supply' (a failed call reverts and changes nothing).
C31_SupplyNeverExceedsMax ==
    /\ totalSupply <= MAX_SUPPLY
    /\ totalSupply = SumBalances(DOMAIN balanceOf)
    /\ \A c \in {Owner, rewardsContract, swapContract} \ {ZeroAddress}, to \in {1, 2} :
          /\ TokenMintResult(c, to, MAX_SUPPLY - totalSupply) = "ok"
          /\ TokenMintResult(c, to, MAX_SUPPLY - totalSupply + 1) = "ExceedsMaxSupply"

\* the supply is at its maximum after tokens were burnt and minted again
C31_Witness ==
    /\ totalSupply = MAX_SUPPLY
    /\ balanceOf[Treasury] < MAX_SUPPLY \div 2
    /\ rewardsContract = Engine
    /\ balanceOf[1] > 0

C33_ZeroValueFailsAsZeroPayment ==
    swap.minCeloPurchase = DEFAULT_MIN_CELO_PURCHASE =>
        \A b \in {1, 2} : BuyTokensResult(b, 0) = "PaymentZero"

\* C34: whenever a snapshot is set (prizePoolSnapshot > 0) the live prizePool
\* is strictly less than the snapshot: the snapshot is only captured by a
\* claim that pays a positive amount, and a funding that brings the pool back
\* to the snapshot value clears it.
C34_PoolBelowSnapshot ==
    prizePoolSnapshot > 0 =>
        /\ prizePool < prizePoolSnapshot
        /\ epochPaid > 0
        /\ prizePool + epochPaid >= prizePoolSnapshot

\* a funding inside the epoch stopped one token short of the snapshot
C34_Witness ==
    /\ prizePoolSnapshot > 0
    /\ prizePool = prizePoolSnapshot - 1
    /\ epochPaid > 1

\* C35: a claimRewards call that fails after passing the ranking checks
\* (NoReward because the share truncates to 0 on a small non-zero pool, or
\* InsufficientPool) never leaves a snapshot behind: a failed call reports
\* the snapshot as it was, and every step that sets an unset snapshot pays a
\* positive amount out of the pool.
C35_FailedClaimLeavesNoSnapshot ==
    [][/\ \A p \in Players :
             ClaimRewardsResult(p).err \in {"NoReward", "InsufficientPool"}
                 => /\ ClaimRewardsResult(p).snapshot = prizePoolSnapshot
                    /\ ClaimRewardsResult(p).amount = 0
                    /\ ~ClaimRewards(p)
       /\ (prizePoolSnapshot = 0 /\ prizePoolSnapshot' # 0)
             => /\ prizePool' < prizePool
                /\ prizePoolSnapshot' = prizePool]_vars

\* a ranked, unclaimed, eligible player whose share of a non-zero pool
\* truncates to 0 while no snapshot is set
C35_Witness ==
    \E p \in Players :
        /\ Claimable(p)
        /\ prizePool > 0
        /\ prizePoolSnapshot = 0
        /\ ClaimRewardsResult(p).err = "NoReward"

\* C36: whenever claimRewards(player) succeeds from a state, the amount it
\* pays equals the value getPlayerReward(player) returns in that state, also
\* for the claim that captures the snapshot.
C36_PreviewEqualsPayout ==
    \A p \in Players :
        ClaimRewardsResult(p).err = "ok" =>
            /\ ClaimRewardsResult(p).amount = GetPlayerReward(p)
            /\ GetPlayerReward(p) > 0

\* a claim inside an epoch is about to pay a share of the snapshot that
\* differs from the same share of the live pool
C36_Witness ==
    \E p \in Players :
        /\ prizePoolSnapshot > 0
        /\ ClaimRewardsResult(p).err = "ok"
        /\ ClaimRewardsResult(p).amount = GetPlayerReward(p)
        /\ ClaimRewardsResult(p).amount #
               CalculateReward(leaderboard, prizePool, 0, minScoreThreshold,
                               playerIndex[p] - 1)

\* C37: every leaderboard entry whose claimed flag is true belongs to a
\* player with hasClaimed true; hence the 'Entry already claimed' check of
\* claimRewards is never the check that fails.
C37_ClaimedEntryImpliesHasClaimed ==
    /\ \A i \in 1..Len(leaderboard) :
          leaderboard[i].claimed => hasClaimed[leaderboard[i].player]
    /\ \A p \in Players \cup {ZeroAddress} :
          ClaimRewardsResult(p).err # "EntryClaimed"

\* a claimed entry next to the fresh, unclaimed entry of another paid player
C37_Witness ==
    /\ Len(leaderboard) = 2
    /\ leaderboard[1].claimed
    /\ ~leaderboard[2].claimed
    /\ hasClaimed[leaderboard[2].player]
    /\ ClaimRewardsResult(leaderboard[1].player).err = "AlreadyClaimed"

\* C38: the leaderboard length never decreases from one state to the next
\* under any operation (a resubmission removes and reinserts one entry,
\* eviction only follows an insertion) and grows by at most one entry, so a
\* full leaderboard stays full.
C38_LengthNeverDecreases ==
    [][/\ Len(leaderboard') >= Len(leaderboard)
       /\ Len(leaderboard') <= Len(leaderboard) + 1
       /\ Full => Full']_vars

\* the leaderboard is full after an eviction and a resubmission
C38_Witness ==
    /\ Full
    /\ \E p, q \in Players :
          /\ hasClaimed[p]
          /\ playerIndex[p] = 0
          /\ hasClaimed[q]
          /\ playerIndex[q] # 0
          /\ ~leaderboard[playerIndex[q]].claimed

\* C39: a successful resubmission never worsens the player's rank: the
\* position of the player's new entry is less than or equal to the position
\* of the entry it replaces, and the entries ranked above the new position
\* are untouched.
C39_ResubmissionNeverWorsensRank ==
    \A p \in Players, s \in Scores :
        (playerIndex[p] # 0 /\ SubmitScoreResult(backendValidator, p, s) = "ok") =>
            LET upd == SubmitScoreUpdate(p, s)
            IN  /\ upd.pi[p] # 0
                /\ upd.pi[p] <= playerIndex[p]
                /\ upd.lb[upd.pi[p]] = [player |-> p, score |-> s, claimed |-> FALSE]
                /\ \A i \in 1..(upd.pi[p] - 1) : upd.lb[i] = leaderboard[i]

\* a resubmission that keeps the player at rank 2 behind an equal score, and
\* one that moves the player up to rank 1
C39_Witness ==
    /\ Len(leaderboard) = 2
    /\ \E p \in Players, s, t \in Scores :
          /\ playerIndex[p] = 2
          /\ SubmitScoreResult(backendValidator, p, s) = "ok"
          /\ SubmitScoreUpdate(p, s).pi[p] = 2
          /\ SubmitScoreResult(backendValidator, p, t) = "ok"
          /\ SubmitScoreUpdate(p, t).pi[p] = 1

\* C40: whenever the wallet is disconnected (no active account, isConnected
\* false, address undefined) the exposed balance is "0", for every
\* interleaving of the account-change effect, disconnectWallet, the refresh
\* timer and the completion of a balance fetch started while connected.
C40_DisconnectedBalanceIsZero ==
    (/\ wallet.activeAccount = Undefined
     /\ ~wallet.isConnected
     /\ wallet.address = Undefined)
        => wallet.balance = "0"

====
